---------------------------- MODULE Spec2Model ----------------------------
(***************************************************************************)
(* Model of the BASE GUI 3 yes/no task presenter (src/controller.py): the  *)
(* Tk event handlers of class Application, the audio object and the        *)
(* calibration model they drive.                                           *)
(*                                                                         *)
(* src/ holds controller.py and models/filehandler.py.  The audio object   *)
(* (models/audiomodel.py), the calibration model (models/calmodel.py), the *)
(* stimulus model, the csv model and the views are not in src/: they are   *)
(* modelled from spec.md (sections 4.1, 4.2 and 4.4) and marked so in      *)
(* MODEL_MAP.json.                                                         *)
(*                                                                         *)
(* Levels are whole decibels.  A sample magnitude is held as its level in  *)
(* dB FS (0 = full scale, amplitude 1.0), so that the gain 10^(dB/20) of   *)
(* section 4.4 is an addition and "magnitude > 1.0" is "level > 0".        *)
(* Text is a sequence of one-character strings.                            *)
(***************************************************************************)
EXTENDS Integers, Sequences, FiniteSets, TLC

VARIABLES
    sessionpars,    \* self.sessionpars: the runtime parameter store
    a,              \* self.a: the audio object (NoAudio: attribute not set)
    cal_file,       \* self.calmodel.cal_file ("none": attribute not set)
    matrix,         \* self.matrix: its row count (the rows are drawn when read)
                    \* (NoMatrix: attribute not set)
    trial_counter,  \* self.trial_counter (NoCounter: attribute not set)
    response,       \* self.response
    start_enabled,  \* state of the File menu's 'Start Task' entry
    destroyed,      \* the root window was destroyed
    last_record,    \* the data that handler handed to csvmodel.save_record
                    \* (NoRecord: none)
    lastEvent,      \* the handler that ran last ("other": one that neither
                    \* presents, stops nor converts a level)
    raised,         \* the exception that left that handler uncaught
    messages,       \* titles of the message boxes that handler showed, in order
    req,            \* what that handler's presentation request did
    abandoned,      \* the device still emits an audio object that self.a
                    \* no longer holds
    rt_tokens,      \* SpecRouting only: the integers the routing text was written from
    disk,           \* SpecFile only: the data directory and the file in it
    fh              \* SpecFile only: what the last FileHandler.save did

vars == <<sessionpars, a, cal_file, matrix, trial_counter, response,
          start_enabled, destroyed, last_record, lastEvent, raised,
          messages, req, abandoned, rt_tokens, disk, fh>>

-----------------------------------------------------------------------------
(* Bounds of the model *)

\* Longest stimulus matrix (rows) the stimulus model hands over.
MaxRows == 2

\* Highest value of self.trial_counter the model follows when no matrix
\* was loaded (the counter then grows with every submit).
MaxTrialCounter == 1

\* Most integer tokens a routing text of SpecRouting is written from.
MaxTokens == 2

\* Longest run of whitespace before, between and after those tokens.
MaxPad == 2

\* SpecLevels draws its levels from -MaxLevel..MaxLevel and LevelExamples.
MaxLevel == 3

-----------------------------------------------------------------------------
(* Inputs *)

\* The attribute self.trial_counter before start_task created it.
NoCounter == -1

\* Characters of a routing text.
Whitespace == {" "}
Digits == {"0", "1", "2", "3", "4", "5", "6", "7", "8", "9"}
Signs == {"-"}


\* Output devices the host enumerates, with their channel counts.
OutputDevices == {1}
DeviceChannels(d) == 2

\* What the operator may leave in the audio settings dialog: a device id
\* and a routing text.
AudioSettings ==
    { [ device |-> 1,  routing |-> <<"1">> ],
      [ device |-> 1,  routing |-> <<"1", " ", "2">> ],
      [ device |-> 1,  routing |-> <<"1", " ", "a">> ],
      [ device |-> -1, routing |-> <<"1">> ] }

\* Calibration dialog entries.
CalLevels == {70}
SlmReadings == {68}

\* What is on disk: channel count and peak level (dB FS) of each audio file.
AudioFiles == {"full.wav", "quiet.wav", "cal.wav"}
FileChannels(f) == IF f = "quiet.wav" THEN 2 ELSE 1
FilePeak_dB(f) ==
    CASE f = "full.wav"  -> 0
      [] f = "quiet.wav" -> -66
      [] OTHER           -> -70

\* Rows of a stimulus matrix: column 0 the audio path, column 1 the level.
MatrixRows ==
    { [file |-> "full.wav",  level |-> -2],
      [file |-> "full.wav",  level |-> 65],
      [file |-> "quiet.wav", level |-> 65],
      [file |-> "gone.wav",  level |-> -2] }

\* The stimulus model (not in src/) fixes every row when it loads the
\* matrix file; the handlers read a row once, when its trial is presented,
\* so the model draws each row at that moment and keeps it, with its
\* index, in the trace of that request.
NoRow == [index |-> -1, file |-> "none", level |-> 0]
NoMatrix == [shape0 |-> 0]

RECURSIVE SeqsUpTo(_, _)
SeqsUpTo(S, n) ==
    IF n = 0 THEN {<<>>}
    ELSE LET shorter == SeqsUpTo(S, n - 1)
         IN shorter \cup { Append(s, x) : s \in shorter, x \in S }


-----------------------------------------------------------------------------
(* The parameter store and the audio object *)

\* self.sessionpars after _load_sessionpars: the fields the handlers read.
DefaultPars ==
    [ slm_reading       |-> 70,
      cal_level_dB      |-> 70,
      slm_offset        |-> 0,
      desired_level_dB  |-> 65,
      adjusted_level_dB |-> 65,
      audio_device      |-> 1,
      channel_routing   |-> <<"1">> ]

\* No attribute self.a yet.
NoAudio ==
    [ file |-> "none", channels |-> 0, peak_dB |-> 0, gain_dB |-> 0,
      state |-> "IDLE" ]

\* What a handler that presents nothing leaves in req.
NoRequest ==
    [ audio       |-> "none",   \* the path handed to present_audio
      load        |-> "none",   \* how building the audio object ended
      play_called |-> FALSE,    \* self.a.play was invoked
      play_file   |-> "none",   \* the asset it was invoked on
      play_state  |-> "none",   \* the state that audio object was in
      level       |-> 0,        \* the level handed to it
      routing     |-> <<>>,     \* the routing handed to it
      play_exc    |-> "none",   \* the exception it raised
      writes      |-> 0,        \* submissions to the output device
      plotted     |-> FALSE,    \* plot_waveform was invoked
      dialogs     |-> {},       \* dialogs the handler opened
      row         |-> NoRow,    \* the matrix row the request was made for
      stopped     |-> NoAudio ] \* the audio object stop_audio found in self.a

\* audiomodel.Audio(audio=Path(...)): loads the file, or fails with
\* FileNotFoundError when the path does not resolve.  Both callers in
\* controller.py pass a Path, and no sampling rate.
Audio(audio) ==
    IF audio.kind = "path"
    THEN IF audio.file \in AudioFiles
         THEN [ exc |-> "none",
                obj |-> [ file     |-> audio.file,
                          channels |-> FileChannels(audio.file),
                          peak_dB  |-> FilePeak_dB(audio.file),
                          gain_dB  |-> 0,
                          state    |-> "LOADED" ] ]
         ELSE [ exc |-> "FileNotFoundError", obj |-> NoAudio ]
    ELSE IF audio.kind = "ndarray"
    THEN [ exc |-> "MissingSamplingRate", obj |-> NoAudio ]
    ELSE [ exc |-> "InvalidAudioType", obj |-> NoAudio ]

Path(file) == [ kind |-> "path", file |-> file ]

\* Audio.apply_gain: every sample times 10^(dB/20), into the played buffer.
apply_gain(obj, level) ==
    [ obj EXCEPT !.gain_dB = level, !.state = "GAIN_APPLIED" ]

\* check_clipping that also reports a signal that just reaches full scale.
check_clipping_at_full_scale(obj) == obj.peak_dB + obj.gain_dB >= 0

\* Audio.check_clipping: some post-gain magnitude exceeds full scale.
check_clipping(obj) == obj.peak_dB + obj.gain_dB > 0

\* Routing Validator: the entries must be as many as the asset's channels.
validate(routing, channel_count) == Len(routing) = channel_count

\* Audio.play(level, device_id, routing), in the order of spec 4.4 and 4.5:
\* gain, routing validation, clipping check, then submission to the named
\* device, which fails when the device is not available.
AudioPlay(obj, level, device_id, routing) ==
    LET gained == apply_gain(obj, level)
    IN  IF ~validate(routing, obj.channels)
        THEN [ exc |-> "InvalidRouting", obj |-> gained, writes |-> 0 ]
        ELSE IF check_clipping(gained)
        THEN [ exc |-> "Clipping",
               obj |-> [ gained EXCEPT !.state = "CLIPPED" ], writes |-> 0 ]
        ELSE IF device_id \notin OutputDevices
        THEN [ exc |-> "InvalidAudioDevice",
               obj |-> [ gained EXCEPT !.state = "VALIDATED" ], writes |-> 0 ]
        ELSE [ exc |-> "none",
               obj |-> [ gained EXCEPT !.state = "PLAYING" ], writes |-> 1 ]

\* Audio.stop(): halts playback if any, a no-op otherwise; never raises.
AudioStop(obj) ==
    IF obj.state = "PLAYING" THEN [ obj EXCEPT !.state = "STOPPED" ] ELSE obj

\* calmodel.calc_offset: slm_offset = cal_level_dB - slm_reading.
calc_offset(pars) ==
    [ pars EXCEPT !.slm_offset = pars.cal_level_dB - pars.slm_reading ]

\* calmodel.calc_level: adjusted_level_dB = desired_spl + slm_offset.
calc_level(pars, desired_spl) ==
    [ pars EXCEPT !.desired_level_dB = desired_spl,
                  !.adjusted_level_dB = desired_spl + pars.slm_offset ]

-----------------------------------------------------------------------------
(* Application._format_routing *)

\* str.split(): the maximal runs of non-whitespace characters, in order.
RECURSIVE SplitFrom(_, _, _)
SplitFrom(s, cur, acc) ==
    IF s = <<>>
    THEN IF cur = <<>> THEN acc ELSE Append(acc, cur)
    ELSE IF Head(s) \in Whitespace
         THEN SplitFrom(Tail(s), <<>>,
                        IF cur = <<>> THEN acc ELSE Append(acc, cur))
         ELSE SplitFrom(Tail(s), Append(cur, Head(s)), acc)

\* str.split(" ") instead: every single space separates, so leading,
\* trailing and repeated spaces yield empty tokens.
RECURSIVE SplitOnEachSpace(_, _, _)
SplitOnEachSpace(s, cur, acc) ==
    IF s = <<>>
    THEN Append(acc, cur)
    ELSE IF Head(s) \in Whitespace
         THEN SplitOnEachSpace(Tail(s), <<>>, Append(acc, cur))
         ELSE SplitOnEachSpace(Tail(s), Append(cur, Head(s)), acc)

split_each_space(s) == SplitOnEachSpace(s, <<>>, <<>>)

split(s) == SplitFrom(s, <<>>, <<>>)

DigitValue(c) ==
    CASE c = "0" -> 0 [] c = "1" -> 1 [] c = "2" -> 2 [] c = "3" -> 3
      [] c = "4" -> 4 [] c = "5" -> 5 [] c = "6" -> 6 [] c = "7" -> 7
      [] c = "8" -> 8 [] c = "9" -> 9

\* int(x) accepts an optional sign followed by at least one digit.
Unsigned(tok) ==
    IF tok # <<>> /\ Head(tok) \in Signs THEN Tail(tok) ELSE tok

IsIntLiteral(tok) ==
    /\ Unsigned(tok) # <<>>
    /\ \A i \in 1..Len(Unsigned(tok)) : Unsigned(tok)[i] \in Digits

RECURSIVE DecimalValue(_)
DecimalValue(ds) ==
    IF ds = <<>> THEN 0
    ELSE 10 * DecimalValue(SubSeq(ds, 1, Len(ds) - 1)) + DigitValue(ds[Len(ds)])

int(tok) ==
    IF Head(tok) \in Signs THEN 0 - DecimalValue(Tail(tok))
    ELSE DecimalValue(tok)

\* [int(x) for x in routing]: the split() forgotten, every character of
\* the text converted on its own.
_format_routing_chars(routing) ==
    IF \E i \in 1..Len(routing) : ~IsIntLiteral(<<routing[i]>>)
    THEN [ exc |-> "ValueError", val |-> <<>> ]
    ELSE [ exc |-> "none",
           val |-> [ i \in 1..Len(routing) |-> int(<<routing[i]>>) ] ]

\* routing.split(), then int(x) for each x: ValueError at a token that is
\* no integer literal.
_format_routing(routing) ==
    LET toks == split(routing)
    IN  IF \E i \in 1..Len(toks) : ~IsIntLiteral(toks[i])
        THEN [ exc |-> "ValueError", val |-> <<>> ]
        ELSE [ exc |-> "none",
               val |-> [ i \in 1..Len(toks) |-> int(toks[i]) ] ]

-----------------------------------------------------------------------------
(* Audio functions of the controller.  Each yields the audio object it     *)
(* leaves in self.a, the exception it lets escape, the message boxes it    *)
(* showed and the trace of the request.                                     *)

\* Application._create_audio_object: FileNotFoundError is reported and
\* swallowed (the function returns normally, self.a untouched); the two
\* audio exceptions are re-raised.
_create_audio_object(obj, audio) ==
    LET c == Audio(audio)
    IN  CASE c.exc = "none" ->
               [ a |-> c.obj, raised |-> "none", load |-> "ok",
                 messages |-> <<>>, dialogs |-> {} ]
          [] c.exc = "FileNotFoundError" ->
               [ a |-> obj, raised |-> "none", load |-> c.exc,
                 messages |-> <<"File Not Found">>, dialogs |-> {"session"} ]
          [] OTHER ->
               [ a |-> obj, raised |-> c.exc, load |-> c.exc,
                 messages |-> <<>>, dialogs |-> {} ]

\* Except clauses that plot the waveform after every failure of a.play.
play_handlers_plot_each_failure(obj, pres_level, routing, p) ==
    [ a        |-> p.obj,
      raised   |-> "none",
      messages |-> CASE p.exc = "InvalidAudioDevice" -> <<"Invalid Device">>
                     [] p.exc = "InvalidRouting"     -> <<"Invalid Routing">>
                     [] p.exc = "Clipping"           -> <<"Clipping">>
                     [] OTHER                        -> <<>>,
      req      |-> [ NoRequest EXCEPT
                       !.play_called = TRUE,
                       !.play_file   = obj.file,
                       !.play_state  = obj.state,
                       !.level       = pres_level,
                       !.routing     = routing,
                       !.play_exc    = p.exc,
                       !.writes      = p.writes,
                       !.plotted     = (p.exc # "none"),
                       !.dialogs     =
                           IF p.exc \in {"InvalidAudioDevice", "InvalidRouting"}
                           THEN {"audio"} ELSE {} ] ]

\* The except clauses of Application._play, applied to what a.play did.
play_handlers(obj, pres_level, routing, p) ==
    [ a        |-> p.obj,
      raised   |-> "none",
      messages |-> CASE p.exc = "InvalidAudioDevice" -> <<"Invalid Device">>
                     [] p.exc = "InvalidRouting"     -> <<"Invalid Routing">>
                     [] p.exc = "Clipping"           -> <<"Clipping">>
                     [] OTHER                        -> <<>>,
      req      |-> [ NoRequest EXCEPT
                       !.play_called = TRUE,
                       !.play_file   = obj.file,
                       !.play_state  = obj.state,
                       !.level       = pres_level,
                       !.routing     = routing,
                       !.play_exc    = p.exc,
                       !.writes      = p.writes,
                       !.plotted     = (p.exc = "Clipping"),
                       !.dialogs     =
                           IF p.exc \in {"InvalidAudioDevice", "InvalidRouting"}
                           THEN {"audio"} ELSE {} ] ]

\* What _play leaves when an exception escapes before a.play is entered.
play_escaped(obj, exc) ==
    [ a |-> obj, raised |-> exc, messages |-> <<>>, req |-> NoRequest ]

\* _play that answers Clipping by playing again at the highest level that
\* does not clip.
_play_attenuate(obj, pars, pres_level) ==
    IF obj = NoAudio THEN play_escaped(obj, "AttributeError")
    ELSE LET r == _format_routing(pars.channel_routing)
         IN  IF r.exc # "none" THEN play_escaped(obj, r.exc)
             ELSE LET p == AudioPlay(obj, pres_level, pars.audio_device, r.val)
                      q == IF p.exc = "Clipping"
                           THEN AudioPlay(obj, 0 - obj.peak_dB,
                                          pars.audio_device, r.val)
                           ELSE p
                  IN  play_handlers(obj, pres_level, r.val, q)

\* _play that hands a.play the host's default device, not the selected one.
_play_default_device(obj, pars, pres_level) ==
    IF obj = NoAudio THEN play_escaped(obj, "AttributeError")
    ELSE LET r == _format_routing(pars.channel_routing)
         IN  IF r.exc # "none" THEN play_escaped(obj, r.exc)
             ELSE play_handlers(obj, pres_level, r.val,
                      AudioPlay(obj, pres_level,
                                CHOOSE d \in OutputDevices : TRUE, r.val))

\* Application._play: self.a.play(level, device_id, routing) under the
\* three except clauses.  Looking up self.a fails first (AttributeError)
\* when no audio object exists; then the routing argument is built, and the
\* ValueError of a token that is no integer matches no except clause.
_play(obj, pars, pres_level) ==
    IF obj = NoAudio THEN play_escaped(obj, "AttributeError")
    ELSE LET r == _format_routing(pars.channel_routing)
         IN  IF r.exc # "none" THEN play_escaped(obj, r.exc)
             ELSE play_handlers(obj, pres_level, r.val,
                      AudioPlay(obj, pres_level, pars.audio_device, r.val))

\* Application.present_audio: build the audio object, then play.  Only
\* InvalidAudioType and MissingSamplingRate end the request before _play.
\* Nothing stops the audio object self.a held before: when a new one takes
\* its place while the device still emits it, it goes on being emitted.
present_audio(obj, pars, audio, pres_level) ==
    LET c == _create_audio_object(obj, audio)
    IN  IF c.raised = "InvalidAudioType"
        THEN [ a |-> c.a, raised |-> "none", abandoned |-> FALSE,
               messages |-> <<"Invalid Audio Type">>,
               req |-> [ NoRequest EXCEPT !.audio = audio.file,
                                          !.load = c.load ] ]
        ELSE IF c.raised = "MissingSamplingRate"
        THEN [ a |-> c.a, raised |-> "none", abandoned |-> FALSE,
               messages |-> <<"Missing Sampling Rate">>,
               req |-> [ NoRequest EXCEPT !.audio = audio.file,
                                          !.load = c.load ] ]
        ELSE LET p == _play(c.a, pars, pres_level)
             IN  [ a |-> p.a, raised |-> p.raised,
                   abandoned |-> (c.load = "ok" /\ obj.state = "PLAYING"),
                   messages |-> c.messages \o p.messages,
                   req |-> [ p.req EXCEPT
                               !.audio = audio.file,
                               !.load = c.load,
                               !.dialogs = c.dialogs \cup p.req.dialogs ] ]

\* stop_audio that also discards the audio object.
stop_audio_discard(obj) == [ a |-> NoAudio, raised |-> "none" ]

\* stop_audio without its except clause.
stop_audio_uncaught(obj) ==
    IF obj = NoAudio THEN [ a |-> obj, raised |-> "AttributeError" ]
    ELSE [ a |-> AudioStop(obj), raised |-> "none" ]

\* Application.stop_audio: self.a.stop(), the AttributeError of a missing
\* self.a caught and printed.
stop_audio(obj) ==
    IF obj = NoAudio THEN [ a |-> obj, raised |-> "none" ]
    ELSE [ a |-> AudioStop(obj), raised |-> "none" ]

\* _calc_offset that only saves the parameters.
_calc_offset_save_only(pars) == pars

\* Application._calc_offset: calmodel.calc_offset(), then the parameters
\* are saved to the configuration file (which changes nothing held here).
_calc_offset(pars) == calc_offset(pars)

\* _calc_level that converts the level held in the store, not its argument.
_calc_level_stored(pars, desired_spl) ==
    calc_level(pars, pars.desired_level_dB)

\* _calc_level that first works the offset out again from the calibration
\* level and the reading held in the store.
_calc_level_recalibrate(pars, desired_spl) ==
    calc_level(calc_offset(pars), desired_spl)

\* _calc_level that only saves the parameters.
_calc_level_save_only(pars, desired_spl) == pars

\* Application._calc_level: calmodel.calc_level(desired_spl), then save.
_calc_level(pars, desired_spl) == calc_level(pars, desired_spl)

\* The fields Application._save_trial_data selects from the store (of
\* save_list, those the model holds: subject, condition, randomize and
\* repetitions are session entries no handler here reads).
SaveList ==
    { "slm_reading", "cal_level_dB", "slm_offset", "desired_level_dB",
      "adjusted_level_dB" }

\* The record _save_trial_data hands to csvmodel.save_record.
trial_data(pars) == [ k \in SaveList |-> pars[k] ]

NoRecord == [ k \in SaveList |-> 0 ]

\* A submit that saves its record after the level conversion for the next
\* trial.
submit_record_after_conversion(pars, next_pars) == trial_data(next_pars)

\* The record of a submit: _on_submit calls _save_trial_data on the store
\* as it finds it (pars), before _calc_level and present_audio leave it as
\* next_pars for the next trial.
submit_record(pars, next_pars) == trial_data(pars)

-----------------------------------------------------------------------------
(* models/filehandler.py: FileHandler.save and CSVFile._write.  Each step   *)
(* yields the disk it leaves and the exception it raises.                   *)

\* The data directory and the file self.file in it, as os.access sees them.
\* content is the file's rows, each the sequence of its cells.
NoDisk ==
    [ data_directory  |-> FALSE,   \* os.access(self.data_directory, F_OK)
      parent_writable |-> FALSE,   \* os.access(self.file.parent, W_OK)
      file_exists     |-> FALSE,   \* os.access(self.file, F_OK)
      file_writable   |-> FALSE,   \* os.access(self.file, W_OK)
      content         |-> <<>> ]

\* What a save is given: a dictionary (its keys and its values, in order),
\* or something that is none and has no keys().
NotADict == [ is_dict |-> FALSE, keys |-> <<>>, vals |-> <<>> ]

\* No save yet.
NoSave ==
    [ found   |-> NoDisk,     \* the disk as the last save found it
      data    |-> NotADict,   \* the data it was given
      steps   |-> <<>>,       \* the steps of save it entered, in order
      written |-> <<>>,       \* the dictionaries written so far, in order
      swallowed |-> FALSE ]   \* some _write ended in its except clause

\* FileHandler._check_for_data_folder: os.makedirs when the directory is
\* not there; made is how makedirs ends.
_check_for_data_folder(d, made) ==
    IF d.data_directory THEN [ exc |-> "none", disk |-> d ]
    ELSE IF made = "ok"
    THEN [ exc  |-> "none",
           disk |-> [ d EXCEPT !.data_directory = TRUE,
                               !.parent_writable = TRUE ] ]
    ELSE [ exc |-> made, disk |-> d ]

\* An access check that looks at the file only, not at its directory.
_check_write_access_file_only(d) ==
    IF d.file_exists /\ ~d.file_writable THEN "PermissionError" ELSE "none"

\* FileHandler._check_write_access: the exception it raises.
_check_write_access(d) ==
    IF \/ (~d.file_exists /\ ~d.parent_writable)
       \/ (d.file_exists /\ ~d.file_writable)
    THEN "PermissionError"
    ELSE "none"

\* A _write that writes the header at every save.
_write_header_each_time(d, data) ==
    IF ~data.is_dict
    THEN [ d EXCEPT !.file_exists = TRUE,
                    !.file_writable = (d.file_exists => d.file_writable) ]
    ELSE [ d EXCEPT !.file_exists = TRUE,
                    !.file_writable = (d.file_exists => d.file_writable),
                    !.content = d.content \o <<data.keys, data.vals>> ]

\* CSVFile._write: newfile is taken before open(self.file, 'a') creates an
\* absent file; DictWriter(fh, fieldnames=data.keys()) raises
\* AttributeError on data without keys(), which the except clause prints,
\* the file created and nothing written; else the header goes in when the
\* file is new, and then the row.
_write(d, data) ==
    LET newfile == ~d.file_exists
        opened  == [ d EXCEPT !.file_exists = TRUE,
                              !.file_writable = (newfile \/ d.file_writable) ]
    IN  IF ~data.is_dict THEN opened
        ELSE [ opened EXCEPT
                 !.content = d.content
                               \o (IF newfile THEN <<data.keys>> ELSE <<>>)
                               \o <<data.vals>> ]

\* The steps of FileHandler.save, in the order it calls them.
SaveSteps ==
    << "_check_for_data_folder", "_create_file_path", "_check_write_access",
       "_write" >>

\* FileHandler.save: the disk it leaves, the exception that leaves it and
\* the steps it entered.
save(d, data, made) ==
    LET folder == _check_for_data_folder(d, made)
        access == _check_write_access(folder.disk)
    IN  IF folder.exc # "none"
        THEN [ disk |-> folder.disk, exc |-> folder.exc,
               steps |-> SubSeq(SaveSteps, 1, 1) ]
        ELSE IF access # "none"
        THEN [ disk |-> folder.disk, exc |-> access,
               steps |-> SubSeq(SaveSteps, 1, 3) ]
        ELSE [ disk |-> _write(folder.disk, data), exc |-> "none",
               steps |-> SaveSteps ]

-----------------------------------------------------------------------------
(* The application: one action per event handler *)

Init ==
    /\ sessionpars = DefaultPars
    /\ a = NoAudio
    /\ cal_file = "none"
    /\ matrix = NoMatrix
    /\ trial_counter = NoCounter
    /\ response = 999
    /\ start_enabled = TRUE
    /\ destroyed = FALSE
    /\ last_record = NoRecord
    /\ lastEvent = "__init__"
    /\ raised = "none"
    /\ messages = <<>>
    /\ req = NoRequest
    /\ abandoned = FALSE
    /\ disk = NoDisk
    /\ fh = NoSave
    /\ rt_tokens = <<>>

\* A handler that presents nothing and lets nothing escape.
Quiet(handler) ==
    /\ lastEvent' = handler
    /\ raised' = "none"
    /\ messages' = <<>>
    /\ req' = NoRequest
    /\ abandoned' = abandoned

\* The outcome o of a presentation request, made for the matrix row at k.
trial_request(o, k, row) ==
    [ o EXCEPT !.req.row = [index |-> k, file |-> row.file,
                            level |-> row.level] ]

\* The test with <= for <: one more trial after the last row.
trials_remain_inclusive(counter, rows) == counter <= rows

\* The test of _on_submit for another trial: the counter is a row index.
trials_remain(counter, rows) == counter < rows

\* A handler that ran a presentation request with outcome o.
Presented(handler, o, before) ==
    /\ lastEvent' = handler
    /\ a' = o.a
    /\ raised' = o.raised
    /\ messages' = before \o o.messages
    /\ req' = o.req
    /\ abandoned' = (abandoned \/ o.abandoned)

\* <<ToolsAudioSettings>>: the operator picks a device and types a routing
\* in the audio dialog, which is bound to the parameter store.
_show_audio_dialog ==
    /\ ~destroyed
    /\ \E s \in AudioSettings :
          sessionpars' = [ sessionpars EXCEPT !.audio_device = s.device,
                                              !.channel_routing = s.routing ]
    /\ Quiet("other")
    /\ last_record' = NoRecord
    /\ UNCHANGED <<a, cal_file, matrix, trial_counter, response,
                   start_enabled, destroyed, rt_tokens,
                   disk, fh>>

\* <<ToolsCalibration>>: the operator types the calibration level and the
\* sound level meter's reading in the calibration dialog.
_show_calibration_dialog ==
    /\ ~destroyed
    /\ \E c \in CalLevels, s \in SlmReadings :
          sessionpars' = [ sessionpars EXCEPT !.cal_level_dB = c,
                                              !.slm_reading = s ]
    /\ Quiet("other")
    /\ last_record' = NoRecord
    /\ UNCHANGED <<a, cal_file, matrix, trial_counter, response,
                   start_enabled, destroyed, rt_tokens,
                   disk, fh>>

\* <<CalibrationSubmit>>
CalibrationSubmit ==
    /\ ~destroyed
    /\ sessionpars' = _calc_offset(sessionpars)
    /\ Quiet("_calc_offset")
    /\ last_record' = NoRecord
    /\ UNCHANGED <<a, cal_file, matrix, trial_counter, response,
                   start_enabled, destroyed, rt_tokens,
                   disk, fh>>

\* <<CalPlay>>: Application.play_calibration_file.  get_cal_file either
\* sets calmodel.cal_file or raises AttributeError, which is reported; the
\* presentation follows in both cases, and reading a cal_file that was
\* never set raises AttributeError.
play_calibration_file ==
    /\ ~destroyed
    /\ \E got \in {"ok", "AttributeError"} :
          LET file == IF got = "ok" THEN "cal.wav" ELSE cal_file
              shown == IF got = "ok" THEN <<>> ELSE <<"File Not Found">>
          IN  /\ cal_file' = file
              /\ IF file = "none"
                 THEN /\ lastEvent' = "play_calibration_file"
                      /\ raised' = "AttributeError"
                      /\ messages' = shown
                      /\ req' = NoRequest
                      /\ abandoned' = abandoned
                      /\ a' = a
                 ELSE Presented("play_calibration_file",
                                present_audio(a, sessionpars, Path(file),
                                              sessionpars.cal_level_dB),
                                shown)
    /\ last_record' = NoRecord
    /\ UNCHANGED <<sessionpars, matrix, trial_counter, response,
                   start_enabled, destroyed, rt_tokens,
                   disk, fh>>

\* <<CalStop>>
CalStop ==
    /\ ~destroyed
    /\ lastEvent' = "stop_audio"
    /\ a' = stop_audio(a).a
    /\ raised' = stop_audio(a).raised
    /\ messages' = <<>>
    /\ req' = [ NoRequest EXCEPT !.stopped = a ]
    /\ abandoned' = abandoned
    /\ last_record' = NoRecord
    /\ UNCHANGED <<sessionpars, cal_file, matrix, trial_counter, response,
                   start_enabled, destroyed, rt_tokens,
                   disk, fh>>

\* The entry left as it was.
StartTaskEntryNormal == "normal"

\* The state start_task gives the File menu's 'Start Task' entry.
StartTaskEntry == "disabled"

\* <<FileStart>>: Application.start_task.  The event comes from the
\* 'Start Task' entry, which emits it only while it is enabled.
start_task ==
    /\ ~destroyed
    /\ start_enabled
    /\ trial_counter' = 0
    /\ start_enabled' = (StartTaskEntry = "normal")
    /\ \/ \* StimulusModel raises FileNotFoundError: reported, return
          /\ lastEvent' = "start_task"
          /\ raised' = "none"
          /\ messages' = <<"File Not Found">>
          /\ req' = NoRequest
          /\ abandoned' = abandoned
          /\ UNCHANGED <<sessionpars, a, matrix>>
       \/ \E n \in 1..MaxRows, row \in MatrixRows :
             LET pars == _calc_level(sessionpars, row.level)
             IN  /\ matrix' = [shape0 |-> n]
                 /\ sessionpars' = pars
                 /\ Presented("start_task",
                              trial_request(
                                  present_audio(a, pars, Path(row.file),
                                                pars.adjusted_level_dB),
                                  trial_counter', row),
                              <<>>)
    /\ last_record' = NoRecord
    /\ UNCHANGED <<cal_file, response, destroyed, rt_tokens,
                   disk, fh>>

\* <<MainYes>> and <<MainNo>>
_on_yes ==
    /\ ~destroyed
    /\ response' = 1
    /\ Quiet("other")
    /\ last_record' = NoRecord
    /\ UNCHANGED <<sessionpars, a, cal_file, matrix, trial_counter,
                   start_enabled, destroyed, rt_tokens,
                   disk, fh>>

_on_no ==
    /\ ~destroyed
    /\ response' = 0
    /\ Quiet("other")
    /\ last_record' = NoRecord
    /\ UNCHANGED <<sessionpars, a, cal_file, matrix, trial_counter,
                   start_enabled, destroyed, rt_tokens,
                   disk, fh>>

\* Message boxes of _on_submit before the next presentation: the response
\* check, then what _save_trial_data reports when save_record ended io.
submit_messages(resp, io) ==
    (IF resp \in {0, 1} THEN <<>> ELSE <<"Invalid Response">>)
    \o (CASE io = "PermissionError" -> <<"Access Denied">>
          [] io = "OSError"         -> <<"File Not Found">>
          [] OTHER                  -> <<>>)

\* <<MainSubmit>>: Application._on_submit.
_on_submit ==
    /\ ~destroyed
    /\ IF trial_counter = NoCounter
       THEN \* self.trial_counter += 1 raises AttributeError
            /\ lastEvent' = "_on_submit"
            /\ raised' = "AttributeError"
            /\ messages' = <<>>
            /\ req' = NoRequest
            /\ abandoned' = abandoned
            /\ last_record' = NoRecord
            /\ UNCHANGED <<sessionpars, a, matrix, trial_counter, destroyed>>
       ELSE /\ matrix = NoMatrix => trial_counter < MaxTrialCounter
            /\ trial_counter' = trial_counter + 1
            /\ \E io \in {"ok", "PermissionError", "OSError"} :
                 LET shown == submit_messages(response, io)
                 IN  /\ IF matrix = NoMatrix
                        THEN \* self.matrix raises AttributeError
                             /\ lastEvent' = "_on_submit"
                             /\ raised' = "AttributeError"
                             /\ messages' = shown
                             /\ req' = NoRequest
                             /\ abandoned' = abandoned
                             /\ UNCHANGED <<sessionpars, a, matrix, destroyed>>
                        ELSE IF trials_remain(trial_counter', matrix.shape0)
                        THEN \E row \in MatrixRows :
                               LET pars == _calc_level(sessionpars, row.level)
                               IN  /\ matrix' = matrix
                                   /\ sessionpars' = pars
                                   /\ Presented("_on_submit",
                                          trial_request(
                                              present_audio(a, pars,
                                                  Path(row.file),
                                                  pars.adjusted_level_dB),
                                              trial_counter', row),
                                          shown)
                                   /\ destroyed' = destroyed
                        ELSE /\ lastEvent' = "_on_submit"
                             /\ raised' = "none"
                             /\ messages' = shown \o <<"Task Complete">>
                             /\ req' = NoRequest
                             /\ abandoned' = abandoned
                             /\ destroyed' = TRUE
                             /\ UNCHANGED <<sessionpars, a, matrix>>
                     /\ last_record' = submit_record(sessionpars, sessionpars')
    /\ UNCHANGED <<cal_file, response, start_enabled, rt_tokens,
                   disk, fh>>

\* The output device emitted the last sample of the asset it was handed.
PlaybackEnds ==
    /\ ~destroyed
    /\ a.state = "PLAYING"
    /\ a' = [ a EXCEPT !.state = "STOPPED" ]
    /\ Quiet("other")
    /\ last_record' = NoRecord
    /\ UNCHANGED <<sessionpars, cal_file, matrix, trial_counter, response,
                   start_enabled, destroyed, rt_tokens,
                   disk, fh>>

\* The output device emitted the last sample of the audio objects that
\* self.a no longer holds.
AbandonedEnds ==
    /\ ~destroyed
    /\ abandoned
    /\ abandoned' = FALSE
    /\ lastEvent' = "other"
    /\ raised' = "none"
    /\ messages' = <<>>
    /\ req' = NoRequest
    /\ last_record' = NoRecord
    /\ UNCHANGED <<sessionpars, a, cal_file, matrix, trial_counter, response,
                   start_enabled, destroyed, rt_tokens,
                   disk, fh>>

\* <<FileQuit>> and the window's close button
_quit ==
    /\ ~destroyed
    /\ destroyed' = TRUE
    /\ Quiet("other")
    /\ last_record' = NoRecord
    /\ UNCHANGED <<sessionpars, a, cal_file, matrix, trial_counter, response,
                   start_enabled, rt_tokens,
                   disk, fh>>

Next ==
    \/ _show_audio_dialog
    \/ _show_calibration_dialog
    \/ CalibrationSubmit
    \/ play_calibration_file
    \/ CalStop
    \/ start_task
    \/ _on_yes
    \/ _on_no
    \/ _on_submit
    \/ PlaybackEnds
    \/ AbandonedEnds
    \/ _quit

Spec == Init /\ [][Next]_vars

-----------------------------------------------------------------------------
(* SpecRouting: _format_routing on texts written in the routing format of  *)
(* spec section 6: integers in decimal, separated by whitespace.           *)

TokenInts == {-1, 0, 1, 2, 10, 12}

DigitChar(d) ==
    CASE d = 0 -> "0" [] d = 1 -> "1" [] d = 2 -> "2" [] d = 3 -> "3"
      [] d = 4 -> "4" [] d = 5 -> "5" [] d = 6 -> "6" [] d = 7 -> "7"
      [] d = 8 -> "8" [] d = 9 -> "9"

\* The decimal text of an integer.
RECURSIVE Decimal(_)
Decimal(n) ==
    IF n < 10 THEN <<DigitChar(n)>>
    ELSE Append(Decimal(n \div 10), DigitChar(n % 10))

str(n) == IF n < 0 THEN <<"-">> \o Decimal(0 - n) ELSE Decimal(n)

Spaces(k) == [ i \in 1..k |-> " " ]

RECURSIVE Join(_, _)
Join(toks, gap) ==
    IF toks = <<>> THEN <<>>
    ELSE IF Len(toks) = 1 THEN str(toks[1])
    ELSE str(Head(toks)) \o Spaces(gap) \o Join(Tail(toks), gap)

\* The tokens, lead spaces before them, gap between them, trail after.
RoutingText(toks, lead, gap, trail) ==
    Spaces(lead) \o Join(toks, gap) \o Spaces(trail)

InitRouting ==
    /\ rt_tokens \in SeqsUpTo(TokenInts, MaxTokens)
    /\ \E lead \in 0..MaxPad, gap \in 1..MaxPad, trail \in 0..MaxPad :
          sessionpars = [ DefaultPars EXCEPT
                            !.channel_routing =
                                RoutingText(rt_tokens, lead, gap, trail) ]
    /\ a = NoAudio
    /\ cal_file = "none"
    /\ matrix = NoMatrix
    /\ trial_counter = NoCounter
    /\ response = 999
    /\ start_enabled = TRUE
    /\ destroyed = FALSE
    /\ last_record = NoRecord
    /\ lastEvent = "__init__"
    /\ raised = "none"
    /\ messages = <<>>
    /\ req = NoRequest
    /\ abandoned = FALSE
    /\ disk = NoDisk
    /\ fh = NoSave

\* self._format_routing(self.sessionpars['channel_routing'].get())
FormatRouting ==
    /\ lastEvent = "__init__"
    /\ lastEvent' = "_format_routing"
    /\ raised' = _format_routing(sessionpars.channel_routing).exc
    /\ req' = [ NoRequest EXCEPT
                  !.routing = _format_routing(sessionpars.channel_routing).val ]
    /\ UNCHANGED <<sessionpars, a, cal_file, matrix, trial_counter, response,
                   start_enabled, destroyed, last_record, messages,
                   abandoned, rt_tokens,
                   disk, fh>>

SpecRouting == InitRouting /\ [][FormatRouting]_vars

-----------------------------------------------------------------------------
(* SpecLevels: the offset calculation and the level conversion on levels   *)
(* drawn from a wider set than the task's.                                 *)

LevelExamples == {65, 68, 70}
Levels == (0 - MaxLevel)..MaxLevel \cup LevelExamples

InitLevels ==
    /\ \E c \in Levels, s \in Levels :
          sessionpars = [ DefaultPars EXCEPT !.cal_level_dB = c,
                                             !.slm_reading = s ]
    /\ a = NoAudio
    /\ cal_file = "none"
    /\ matrix = NoMatrix
    /\ trial_counter = NoCounter
    /\ response = 999
    /\ start_enabled = TRUE
    /\ destroyed = FALSE
    /\ last_record = NoRecord
    /\ lastEvent = "__init__"
    /\ raised = "none"
    /\ messages = <<>>
    /\ req = NoRequest
    /\ abandoned = FALSE
    /\ disk = NoDisk
    /\ fh = NoSave
    /\ rt_tokens = <<>>

\* self._calc_level(desired_spl) for the level of a matrix row, after a
\* calibration was submitted.
CalcLevel ==
    /\ lastEvent # "__init__"
    /\ \E d \in Levels :
          /\ req' = [ NoRequest EXCEPT
                        !.row = [index |-> 0, file |-> "none", level |-> d] ]
          /\ sessionpars' = _calc_level(sessionpars, d)
    /\ lastEvent' = "_calc_level"
    /\ UNCHANGED <<a, cal_file, matrix, trial_counter, response,
                   start_enabled, destroyed, last_record, raised, messages,
                   abandoned, rt_tokens,
                   disk, fh>>

SpecLevels == InitLevels /\ [][CalibrationSubmit \/ CalcLevel]_vars

-----------------------------------------------------------------------------
(* SpecPlay: one call of _play on a loaded asset, the asset's peak and the  *)
(* level drawn from around full scale.                                      *)

\* Peak levels of the asset, in dB FS: full scale and up to MaxLevel below.
Peaks == (0 - MaxLevel)..0

InitPlay ==
    /\ \E f \in AudioFiles, p \in Peaks :
          a = [ Audio(Path(f)).obj EXCEPT !.peak_dB = p ]
    /\ \E s \in AudioSettings :
          sessionpars = [ DefaultPars EXCEPT !.audio_device = s.device,
                                             !.channel_routing = s.routing ]
    /\ cal_file = "none"
    /\ matrix = NoMatrix
    /\ trial_counter = NoCounter
    /\ response = 999
    /\ start_enabled = TRUE
    /\ destroyed = FALSE
    /\ last_record = NoRecord
    /\ lastEvent = "__init__"
    /\ raised = "none"
    /\ messages = <<>>
    /\ req = NoRequest
    /\ abandoned = FALSE
    /\ disk = NoDisk
    /\ fh = NoSave
    /\ rt_tokens = <<>>

\* self._play(pres_level)
PlayLevel ==
    /\ lastEvent = "__init__"
    /\ \E pres_level \in Levels :
          LET o == _play(a, sessionpars, pres_level)
          IN  /\ a' = o.a
              /\ raised' = o.raised
              /\ messages' = o.messages
              /\ req' = o.req
    /\ lastEvent' = "_play"
    /\ UNCHANGED <<sessionpars, cal_file, matrix, trial_counter, response,
                   start_enabled, destroyed, last_record, abandoned,
                   rt_tokens,
                   disk, fh>>

SpecPlay == InitPlay /\ [][PlayLevel]_vars

-----------------------------------------------------------------------------
(* SpecFile: saves of one CSVFile to one file, from a disk on which the    *)
(* file does not exist yet, the permissions changing between the saves.    *)

\* Most dictionaries the model writes to the file.
MaxSaves == 3

\* The dictionaries handed to save.
Dicts ==
    { [ is_dict |-> TRUE, keys |-> <<"trial", "response">>, vals |-> <<1, 0>> ],
      [ is_dict |-> TRUE, keys |-> <<"trial", "response">>, vals |-> <<2, 1>> ] }

InitFile ==
    /\ \E dir \in BOOLEAN, writable \in BOOLEAN :
          disk = [ NoDisk EXCEPT !.data_directory = dir,
                                 !.parent_writable = (dir /\ writable) ]
    /\ fh = NoSave
    /\ sessionpars = DefaultPars
    /\ a = NoAudio
    /\ cal_file = "none"
    /\ matrix = NoMatrix
    /\ trial_counter = NoCounter
    /\ response = 999
    /\ start_enabled = TRUE
    /\ destroyed = FALSE
    /\ last_record = NoRecord
    /\ lastEvent = "__init__"
    /\ raised = "none"
    /\ messages = <<>>
    /\ req = NoRequest
    /\ abandoned = FALSE
    /\ rt_tokens = <<>>

\* CSVFile(...).save(data)
Save ==
    /\ Len(fh.written) < MaxSaves
    /\ \E data \in Dicts \cup {NotADict}, made \in {"ok", "PermissionError"} :
          LET s == save(disk, data, made)
              wrote == s.exc = "none" /\ data.is_dict
          IN  /\ disk' = s.disk
              /\ raised' = s.exc
              /\ fh' = [ found   |-> disk,
                         data    |-> data,
                         steps   |-> s.steps,
                         written |-> IF wrote THEN Append(fh.written, data)
                                     ELSE fh.written,
                         swallowed |-> (fh.swallowed
                                          \/ (s.exc = "none" /\ ~data.is_dict)) ]
    /\ lastEvent' = "save"
    /\ UNCHANGED <<sessionpars, a, cal_file, matrix, trial_counter, response,
                   start_enabled, destroyed, last_record, messages, req,
                   abandoned, rt_tokens>>

\* Someone changes the permissions of the data directory and of the file.
Chmod ==
    /\ disk.data_directory
    /\ \E dir_w \in BOOLEAN, file_w \in BOOLEAN :
          disk' = [ disk EXCEPT !.parent_writable = dir_w,
                                !.file_writable = (disk.file_exists /\ file_w) ]
    /\ lastEvent' = "other"
    /\ raised' = "none"
    /\ UNCHANGED <<sessionpars, a, cal_file, matrix, trial_counter, response,
                   start_enabled, destroyed, last_record, messages, req,
                   abandoned, rt_tokens, fh>>

SpecFile == InitFile /\ [][Save \/ Chmod]_vars

-----------------------------------------------------------------------------
(* Properties *)

\* The handler that ran last issued a presentation request.
Presenting ==
    /\ lastEvent \in {"start_task", "_on_submit", "play_calibration_file"}
    /\ req.audio # "none"

\* The handler that ran last presented a trial of the task.
TrialPresented ==
    /\ lastEvent \in {"start_task", "_on_submit"}
    /\ req.audio # "none"

\* Every whitespace-separated token of the text is an integer literal.
AllTokensIntegers(text) ==
    \A i \in 1..Len(split(text)) : IsIntLiteral(split(text)[i])

\* The gain-applied signal of the request exceeds full scale.
SignalClips == a.peak_dB + req.level > 0

\* C1: in every presentation request whose gain-applied signal clips, play
\* submits nothing to the output device, and, the routing having passed its
\* validation so that the clipping check runs, it fails with Clipping.
C1_ClippingSubmitsNothing ==
    (Presenting /\ req.play_called /\ SignalClips)
        => /\ req.writes = 0
           /\ a.state # "PLAYING"
           /\ (Len(req.routing) = a.channels => req.play_exc = "Clipping")

\* C1 witness: a request ended in Clipping with nothing written.
C1_Witness ==
    /\ Presenting
    /\ req.play_exc = "Clipping"
    /\ SignalClips
    /\ req.writes = 0

\* C2, as claimed: a request whose asset failed to load invokes play on no
\* asset, new or left over, and a request in which any stage failed
\* submits nothing to the device.
C2_FailureShortCircuits ==
    Presenting
        => /\ (req.load # "ok" => ~req.play_called /\ req.writes = 0)
           /\ (req.play_exc # "none" \/ raised # "none" => req.writes = 0)

\* C3: for every loaded asset and every routing text of integers, play is
\* reached and fails with InvalidRouting exactly when the text holds a
\* number of entries other than the asset's channel count, whatever the
\* device's channel count, and then nothing is submitted.
C3_InvalidRoutingIffCountDiffers ==
    (Presenting /\ a # NoAudio /\ AllTokensIntegers(sessionpars.channel_routing))
        => /\ req.play_called
           /\ (req.play_exc = "InvalidRouting"
                 <=> Len(split(sessionpars.channel_routing)) # a.channels)
           /\ (req.play_exc = "InvalidRouting" => req.writes = 0)

\* C3 witness: a routing with as many entries as the device has channels,
\* but not as many as the asset, failed with InvalidRouting.
C3_Witness ==
    /\ Presenting
    /\ req.play_exc = "InvalidRouting"
    /\ sessionpars.audio_device \in OutputDevices
    /\ Len(req.routing) = DeviceChannels(sessionpars.audio_device)
    /\ a.channels = 1
    /\ req.writes = 0

C5_UnparsableRoutingIsInvalidRouting ==
    (Presenting /\ a # NoAudio /\ ~AllTokensIntegers(sessionpars.channel_routing))
        => /\ raised = "none"
           /\ messages # <<>>
           /\ messages[Len(messages)] = "Invalid Routing"
           /\ req.writes = 0

\* C6: for a routing text written from integers separated (and possibly
\* preceded and followed) by any amount of whitespace, _format_routing
\* returns exactly those integers, in order, one entry per token.
C6_ParseReturnsTheTokens ==
    lastEvent = "_format_routing"
        => /\ raised = "none"
           /\ req.routing = rt_tokens

\* C6 witness: "1 2" with leading, repeated and trailing whitespace was
\* parsed to the two-element <<1, 2>>.
C6_Witness ==
    /\ lastEvent = "_format_routing"
    /\ rt_tokens = <<1, 2>>
    /\ req.routing = <<1, 2>>
    /\ Len(sessionpars.channel_routing) > 4
    /\ sessionpars.channel_routing[1] = " "
    /\ sessionpars.channel_routing[Len(sessionpars.channel_routing)] = " "

\* C7: once a calibration was submitted the offset is cal_level_dB minus
\* slm_reading, and the level converted from desired level d with that
\* offset is d + cal_level_dB - slm_reading.
C7_OffsetAndAdjustedLevel ==
    /\ lastEvent # "__init__"
          => sessionpars.slm_offset
                = sessionpars.cal_level_dB - sessionpars.slm_reading
    /\ lastEvent = "_calc_level"
          => sessionpars.adjusted_level_dB
                = req.row.level + sessionpars.cal_level_dB
                    - sessionpars.slm_reading

\* C7 witness: calibration level 70 and reading 68 gave offset 2, and the
\* desired level 65 was converted to 67.
C7_Witness ==
    /\ lastEvent = "_calc_level"
    /\ sessionpars.cal_level_dB = 70
    /\ sessionpars.slm_reading = 68
    /\ sessionpars.slm_offset = 2
    /\ req.row.level = 65
    /\ sessionpars.adjusted_level_dB = 67

\* C8: the level conversion adds exactly the offset: the adjusted level
\* minus the offset is the desired level that was asked for, which is also
\* the desired level the store then holds.
C8_ConversionUndoneBySubtraction ==
    lastEvent = "_calc_level"
        => /\ sessionpars.adjusted_level_dB - sessionpars.slm_offset
                = req.row.level
           /\ sessionpars.desired_level_dB = req.row.level

\* C8 witness: a conversion with an offset other than zero that changed
\* the level.
C8_Witness ==
    /\ lastEvent = "_calc_level"
    /\ sessionpars.slm_offset # 0
    /\ sessionpars.adjusted_level_dB # req.row.level
    /\ sessionpars.adjusted_level_dB - sessionpars.slm_offset = req.row.level

\* C9: the level handed to play for a trial is the desired level of that
\* trial's matrix row plus the offset held at that moment, and the path
\* presented is that row's.
C9_TrialLevelIsConvertedAfresh ==
    TrialPresented
        => /\ req.audio = req.row.file
           /\ sessionpars.desired_level_dB = req.row.level
           /\ sessionpars.adjusted_level_dB
                 = req.row.level + sessionpars.slm_offset
           /\ (req.play_called
                 => req.level = req.row.level + sessionpars.slm_offset)

\* C9 witness: the second trial was played at its own row's level plus the
\* offset, which is not the adjusted level the first trial left (the one
\* the submit recorded).
C9_Witness ==
    /\ lastEvent = "_on_submit"
    /\ trial_counter = 1
    /\ req.play_called
    /\ req.level = req.row.level + sessionpars.slm_offset
    /\ sessionpars.slm_offset # 0
    /\ last_record.adjusted_level_dB # req.level

\* C10: stop_audio lets no exception escape, whatever ran before it.
C10_StopNeverRaises ==
    lastEvent = "stop_audio" => raised = "none"

\* C10 witness: stop was called when no audio object existed yet.
C10_Witness ==
    /\ lastEvent = "stop_audio"
    /\ a = NoAudio
    /\ raised = "none"

\* C11: stop_audio on an audio object that is PLAYING halts it (STOPPED)
\* and changes nothing else of it; on an audio object in any other state,
\* or when there is none, it leaves self.a exactly as it found it.
C11_StopHaltsOnlyPlayback ==
    lastEvent = "stop_audio"
        => a = IF req.stopped.state = "PLAYING"
               THEN [ req.stopped EXCEPT !.state = "STOPPED" ]
               ELSE req.stopped

\* C11 witness: stop_audio halted an asset that was playing.
C11_Witness ==
    /\ lastEvent = "stop_audio"
    /\ req.stopped.state = "PLAYING"
    /\ a.state = "STOPPED"
    /\ a.file = req.stopped.file

\* C12, as claimed: no two audio objects are being emitted at once.  When
\* a presentation request is made while the device still emits the audio
\* object of the request before, the earlier one is not left playing
\* beside the new one, and the new request does not write to the device
\* while the earlier one is still being emitted.
C12_OneActiveSession ==
    /\ ~(abandoned /\ a.state = "PLAYING")
    /\ (Presenting /\ req.writes > 0) => ~abandoned

\* C13, as claimed: an audio object is PLAYING, and samples were written
\* to the device, only when play was invoked on the freshly loaded asset of
\* this request (LOADED), its gain was applied at the requested level, the
\* routing has as many entries as the asset has channels and the signal
\* does not clip; and play invoked on an audio object that is CLIPPED never
\* leaves it PLAYING.
C13_PlayingOnlyAlongThePath ==
    (Presenting /\ req.play_called)
        => /\ (req.writes > 0 \/ a.state = "PLAYING")
                => /\ req.load = "ok"
                   /\ req.play_state = "LOADED"
                   /\ a.gain_dB = req.level
                   /\ Len(req.routing) = a.channels
                   /\ ~SignalClips
           /\ req.play_state = "CLIPPED" => a.state # "PLAYING"

\* C14: a presentation request whose signal clips (the routing having
\* passed) fails with Clipping and alters no level: the parameter store is
\* left as it was handed to the request (for a trial, as the level
\* conversion before the request left it, with the offset it found; for
\* the calibration signal, untouched), the audio object holds the signal
\* at the requested level, and nothing is played in its place.
C14_ClippingAltersNoLevel ==
    [][ (Presenting' /\ req'.play_called /\ SignalClips'
           /\ Len(req'.routing) = a'.channels)
          => /\ req'.play_exc = "Clipping"
             /\ sessionpars' =
                   IF lastEvent' = "play_calibration_file" THEN sessionpars
                   ELSE _calc_level(sessionpars, req'.row.level)
             /\ sessionpars'.slm_offset = sessionpars.slm_offset
             /\ req'.level =
                   IF lastEvent' = "play_calibration_file"
                   THEN sessionpars.cal_level_dB
                   ELSE req'.row.level + sessionpars.slm_offset
             /\ a'.gain_dB = req'.level
             /\ a'.state = "CLIPPED"
             /\ req'.writes = 0 ]_vars

\* C14 witness: a trial at 65 dB with an offset of 2 dB ended in Clipping,
\* and the store still holds 65, 67 and 2.
C14_Witness ==
    /\ TrialPresented
    /\ req.play_exc = "Clipping"
    /\ sessionpars.desired_level_dB = 65
    /\ sessionpars.slm_offset = 2
    /\ sessionpars.adjusted_level_dB = 67
    /\ a.gain_dB = 67
    /\ a.state = "CLIPPED"

\* C15: the clipping check is a strict comparison with full scale.  Once
\* the routing passed, play fails with Clipping exactly when the asset's
\* peak with the gain applied exceeds full scale; in particular an asset
\* whose peak is exactly full scale does not clip at level 0 and clips at
\* every level above 0.
C15_ClippingIsStrict ==
    (lastEvent = "_play" /\ req.play_called /\ Len(req.routing) = a.channels)
        => /\ req.play_exc = "Clipping" <=> a.peak_dB + req.level > 0
           /\ (a.peak_dB = 0 /\ req.level = 0) => req.play_exc # "Clipping"
           /\ (a.peak_dB = 0 /\ req.level > 0) => req.play_exc = "Clipping"

\* C15 witness: an asset whose peak is exactly full scale was played at
\* level 0.
C15_Witness ==
    /\ lastEvent = "_play"
    /\ a.peak_dB = 0
    /\ req.level = 0
    /\ req.play_exc = "none"
    /\ a.state = "PLAYING"
    /\ req.writes = 1

\* C16: the waveform is plotted exactly when a.play raised Clipping, and
\* then self.a, the object plotted, is the audio object that play was
\* invoked on, clipped, with the gain of the request applied; no handler
\* plots after a successful play, an InvalidAudioDevice or an
\* InvalidRouting, or without a request.
C16_PlotOnlyAfterClipping ==
    /\ req.plotted <=> (req.play_called /\ req.play_exc = "Clipping")
    /\ req.plotted => /\ a.file = req.play_file
                      /\ a.state = "CLIPPED"
                      /\ a.gain_dB = req.level
                      /\ messages[Len(messages)] = "Clipping"

\* C16 witness: the first trial clipped and the waveform of its audio
\* object was plotted.
C16_Witness ==
    /\ lastEvent = "start_task"
    /\ req.plotted
    /\ req.play_exc = "Clipping"
    /\ req.load = "ok"
    /\ a.file = req.audio
    /\ a.state = "CLIPPED"

\* C17: only the calibration submit writes slm_offset: every step of any
\* other handler (audio and calibration dialogs, calibration play, stop,
\* start of the task, yes, no, submit, quit) leaves it as it was, and the
\* level a trial is converted to is its row's level plus that offset.
C17_OnlyCalibrationWritesOffset ==
    [][ /\ sessionpars'.slm_offset # sessionpars.slm_offset
             => lastEvent' = "_calc_offset"
        /\ TrialPresented'
             => sessionpars'.adjusted_level_dB
                   = req'.row.level + sessionpars.slm_offset ]_vars

\* C17 witness: the offset of 2 dB a calibration left was applied to two
\* trials in a row: the record of the first holds it, and the second was
\* converted with it.
C17_Witness ==
    /\ lastEvent = "_on_submit"
    /\ TrialPresented
    /\ last_record.slm_offset = 2
    /\ last_record.adjusted_level_dB = last_record.desired_level_dB + 2
    /\ sessionpars.slm_offset = 2
    /\ sessionpars.adjusted_level_dB = req.row.level + 2

\* C18, as claimed: the record a submit hands to the trial log holds the
\* listener's response to the trial just answered, 0 or 1, together with
\* the calibration metadata of the store.
C18_RecordHoldsResponse ==
    (lastEvent = "_on_submit" /\ last_record # NoRecord)
        => /\ "response" \in DOMAIN last_record
           /\ last_record["response"] = response
           /\ response \in {0, 1}
           /\ \A k \in SaveList : k \in DOMAIN last_record

\* play_calibration_file ran last and its get_cal_file failed: the report
\* of that failure is the first message box of the handler.
CalFileFailed ==
    /\ lastEvent = "play_calibration_file"
    /\ messages # <<>>
    /\ messages[1] = "File Not Found"
    /\ req.load # "FileNotFoundError"

\* C19, as claimed: when get_cal_file fails in play_calibration_file, the
\* failure is reported and the handler requests no presentation: it does
\* not call present_audio, no play is invoked and nothing is written to the
\* device.
C19_NoCalFileNoPresentation ==
    CalFileFailed
        => /\ req.audio = "none"
           /\ ~req.play_called
           /\ req.writes = 0

\* What holds of the trial counter in every state of a task whose matrix
\* of N rows was loaded.
TrialsInRowOrder ==
    matrix # NoMatrix
        => /\ trial_counter \in 0..matrix.shape0
           /\ lastEvent = "start_task"
                => /\ trial_counter = 0
                   /\ req.row.index = 0
                   /\ req.audio = req.row.file
           /\ (lastEvent = "_on_submit" /\ trial_counter < matrix.shape0)
                => /\ req.row.index = trial_counter
                   /\ req.audio = req.row.file
                   /\ ~destroyed
           /\ trial_counter = matrix.shape0
                => /\ lastEvent = "_on_submit"
                   /\ req = NoRequest
                   /\ messages[Len(messages)] = "Task Complete"
                   /\ destroyed

\* C20: with a matrix of N rows, start_task requests row 0 and runs once,
\* every submit adds exactly one to the trial counter and nothing else
\* changes it, the submit that brings it to k < N requests row k, and the
\* one that brings it to N requests nothing, reports 'Task Complete' and
\* destroys the window, after which the counter stays at N.
C20_EachRowOnceInOrder ==
    /\ []TrialsInRowOrder
    /\ [][ /\ lastEvent' = "start_task"
                => (trial_counter = NoCounter /\ trial_counter' = 0)
           /\ (lastEvent' = "_on_submit" /\ matrix # NoMatrix)
                => trial_counter' = trial_counter + 1
           /\ trial_counter' # trial_counter
                => lastEvent' \in {"start_task", "_on_submit"} ]_vars

\* C20 witness: a task of two rows was run to its end: the second submit
\* found no row left, reported completion and destroyed the window.
C20_Witness ==
    /\ matrix.shape0 = 2
    /\ trial_counter = 2
    /\ lastEvent = "_on_submit"
    /\ req = NoRequest
    /\ messages[Len(messages)] = "Task Complete"
    /\ destroyed

AccessDenied ==
    /\ fh.found.data_directory
    /\ \/ (~fh.found.file_exists /\ ~fh.found.parent_writable)
       \/ (fh.found.file_exists /\ ~fh.found.file_writable)

\* C22: save enters its steps in the order data directory, file path,
\* access check, write.  When the access check fails, PermissionError
\* leaves save, _write is not entered and the disk, the file's content with
\* it, is as save found it; PermissionError out of the access check means
\* just that, and _write is entered only when the check passed.
C22_AccessCheckBeforeWrite ==
    lastEvent = "save"
        => /\ fh.steps = SubSeq(SaveSteps, 1, Len(fh.steps))
           /\ AccessDenied
                => /\ raised = "PermissionError"
                   /\ fh.steps = SubSeq(SaveSteps, 1, 3)
                   /\ disk = fh.found
           /\ (raised = "PermissionError" /\ Len(fh.steps) = 3)
                => AccessDenied
           /\ Len(fh.steps) = 4
                => (raised = "none" /\ ~AccessDenied)

\* C22 witness: a save to a file that is there but not writable was turned
\* down with the rows of the file untouched.
C22_Witness ==
    /\ lastEvent = "save"
    /\ fh.found.file_exists
    /\ ~fh.found.file_writable
    /\ fh.found.parent_writable
    /\ raised = "PermissionError"
    /\ fh.steps = SubSeq(SaveSteps, 1, 3)
    /\ Len(disk.content) = 2
    /\ disk.content = fh.found.content

\* The rows of a file to which the dictionaries ds were saved, in order.
HeaderAndRows(ds) ==
    <<ds[1].keys>> \o [ i \in 1..Len(ds) |-> ds[i].vals ]

\* C23: from a disk without the file, after n >= 1 saves of dictionaries
\* that wrote (and none that was given no dictionary) the file holds the
\* header of the first as its first row, then the n rows in the order of
\* the saves; and a save of a dictionary to a file that is there adds its
\* row, and no header, to the rows it found.
C23_OneHeaderThenRows ==
    /\ (~fh.swallowed /\ Len(fh.written) >= 1)
          => /\ disk.content = HeaderAndRows(fh.written)
             /\ Len(disk.content) = Len(fh.written) + 1
    /\ (lastEvent = "save" /\ raised = "none" /\ fh.data.is_dict
          /\ fh.found.file_exists)
          => disk.content = fh.found.content \o <<fh.data.vals>>

\* C23 witness: three saves left the header and three rows.
C23_Witness ==
    /\ lastEvent = "save"
    /\ ~fh.swallowed
    /\ Len(fh.written) = 3
    /\ fh.written[1] # fh.written[2]
    /\ disk.content = HeaderAndRows(fh.written)
    /\ Len(disk.content) = 4

\* C24: 'Start Task' is enabled exactly until start_task is invoked: the
\* step of start_task disables it, also when the matrix file is missing,
\* no later step enables it, and the trial counter is set to 0 by that one
\* step only, never once it is counting.
C24_StartedAtMostOnce ==
    /\ [](start_enabled <=> trial_counter = NoCounter)
    /\ [][ /\ ~start_enabled => ~start_enabled'
           /\ lastEvent' = "start_task"
                => (start_enabled /\ ~start_enabled')
           /\ (trial_counter' = 0 /\ trial_counter # 0)
                => (trial_counter = NoCounter /\ lastEvent' = "start_task")
         ]_vars

\* C24 witness: start_task found no matrix file and returned; a submit
\* later 'Start Task' is still disabled and the counter has gone on.
C24_Witness ==
    /\ lastEvent = "_on_submit"
    /\ matrix = NoMatrix
    /\ trial_counter = 1
    /\ ~start_enabled
    /\ ~destroyed

=============================================================================
